---- MODULE Spec2Model ----
(***************************************************************************)
(* Reception queue server (src/Server_main.py).                            *)
(*                                                                         *)
(* The store is the SQLite database behind `engine`: the `service` and     *)
(* `ticket` tables.  Every HTTP handler is a plain `def`, so FastAPI runs  *)
(* it on a worker thread with a Session of its own; a handler is modelled  *)
(* as one process whose steps are the SQL statements it executes.  One     *)
(* statement (or one commit) is atomic, nothing else is: no handler takes  *)
(* a lock or keeps its read and its write in one transaction.              *)
(***************************************************************************)
EXTENDS Integers, Sequences, FiniteSets, TLC

\* ------------------------------------------------------------------ bounds
MaxProcs == 2          \* worker threads serving requests at the same time
MaxTicketId == 2       \* largest ticket id the run hands out
MaxClock == 1          \* readings of datetime.now() are 0..MaxClock
MaxConns == 2          \* websocket connections opened in one run

Procs == 1 .. MaxProcs
Conns == 1 .. MaxConns

\* ------------------------------------------------------------ input values
NULL == 0 - 1                       \* SQL NULL / Python None in int columns
ADMIN_API_KEY == "CHANGE_ME"
NoHeader == "<absent>"              \* request without an x-api-key header
KeyInputs == {ADMIN_API_KEY, "change_me", NoHeader}
ServiceNames == {"Reception", "Booth"}
TicketNames == {"Alice", ""}
ServiceIdInputs == 1 .. 2           \* 2 is stored only where "Booth" is created
TicketIdInputs == 1 .. MaxTicketId    \* ids of rows stored at some time

VARIABLES
    services,      \* table service: sequence of names, row id = index
    tickets,       \* table ticket: function id -> row
    clock,         \* what datetime.now(timezone.utc) returns now
    pc,            \* per worker: the statement its handler executes next
    frame,         \* per worker: the request and the handler's locals
    resp,          \* per worker: the HTTP response of the finished request
    subscribers,   \* dict service_id -> list of websockets
    ws,            \* per websocket: where its queue_ws coroutine stands
    inbox,         \* per websocket: the snapshots sent to it so far
    owed,          \* websockets subscribed to a service when a mutation of
                   \* that service committed and not sent anything since
    seen           \* per worker, for the request it serves: the waiting
                   \* counts the store has had since a stats request began,
                   \* and the queue positions that a call_next selected from

vars == <<services, tickets, clock, pc, frame, resp, subscribers, ws, inbox, owed, seen>>

\* ------------------------------------------------------------------ tables
TicketBornCalled(name, service_id, created_at) ==
    [name |-> name, service_id |-> service_id, called |-> TRUE,
     created_at |-> created_at, called_at |-> created_at]

Ticket(name, service_id, created_at) ==
    [name |-> name, service_id |-> service_id, called |-> FALSE,
     created_at |-> created_at, called_at |-> NULL]

TicketIds == DOMAIN tickets

ServiceIds == 1 .. Len(services)

\* session.get(Service, service_id) returns a row
ServiceFoundAlways(service_id) == TRUE

ServiceFound(service_id) == service_id \in ServiceIds

ServiceByName(name) == {i \in ServiceIds : services[i] = name}

SetMax(S) == CHOOSE m \in S : \A x \in S : x <= m

\* rowid of an INSERT into a table whose key is INTEGER PRIMARY KEY without
\* AUTOINCREMENT: one more than the largest rowid now in the table.
NextRowId(ids) == IF ids = {} THEN 1 ELSE SetMax(ids) + 1

InsertTicket(T, row) ==
    LET n == NextRowId(DOMAIN T)
    IN  [i \in (DOMAIN T) \cup {n} |-> IF i = n THEN row ELSE T[i]]

DeleteNothing(T, id) == T

DeleteTicket(T, id) == [i \in (DOMAIN T) \ {id} |-> T[i]]

\* ORDER BY created_at; rows with equal created_at come out in rowid order.
Before(T, i, j) ==
    \/ T[i].created_at < T[j].created_at
    \/ T[i].created_at = T[j].created_at /\ i < j

RECURSIVE OrderByCreatedAt(_, _)
OrderByCreatedAt(T, ids) ==
    IF ids = {} THEN <<>>
    ELSE LET first == CHOOSE i \in ids : \A j \in ids \ {i} : Before(T, i, j)
         IN  <<first>> \o OrderByCreatedAt(T, ids \ {first})

TicketsOf(T, service_id) == {i \in DOMAIN T : T[i].service_id = service_id}

WaitingOrCalledOf(T, service_id) == TicketsOf(T, service_id)

WaitingOf(T, service_id) == {i \in TicketsOf(T, service_id) : ~T[i].called}

\* ------------------------------------------------------- internal utilities
position_in_queue(T, ticket) ==
    IF ticket.called THEN 0
    ELSE Cardinality({i \in DOMAIN T :
                         /\ T[i].service_id = ticket.service_id
                         /\ ~T[i].called
                         /\ T[i].created_at < ticket.created_at}) + 1

ticket_to_read(id, ticket, position) ==
    [id |-> id, name |-> ticket.name, service_id |-> ticket.service_id,
     position |-> position, called |-> ticket.called,
     created_at |-> ticket.created_at, called_at |-> ticket.called_at]

\* ---------------------------------------------------------------- responses
NoFrame == [op |-> "none", service_id |-> 0, ticket_id |-> 0, key |-> "",
            name |-> "", created_at |-> NULL, called_at |-> NULL, ticket |-> <<>>,
            services |-> <<>>, summaries |-> <<>>]

NoResp == [status |-> 0, detail |-> "", body |-> <<>>]

Reply(status, detail, body) == [status |-> status, detail |-> detail, body |-> body]

Finish(p, r) ==
    /\ pc' = [pc EXCEPT ![p] = "done"]
    /\ resp' = [resp EXCEPT ![p] = r]

NoSeen == [window |-> {}, queue |-> <<>>]

\* The number of waiting tickets of each service of the list ids in table T.
WaitingCounts(T, ids) ==
    [k \in 1 .. Len(ids) |->
        Cardinality({i \in DOMAIN T : T[i].service_id = ids[k] /\ ~T[i].called})]

\* The ticket table has become T: every stats request in progress has now
\* had this store state within its duration.
Observe(T) ==
    [q \in Procs |->
        IF pc[q] = "st_count"
        THEN [seen[q] EXCEPT !.window = @ \cup {WaitingCounts(T, frame[q].services)}]
        ELSE seen[q]]

NoSocket == [at |-> "new", service_id |-> 0, existing |-> FALSE]

Range(seq) == {seq[k] : k \in 1 .. Len(seq)}

\* The websockets that a committed change of the queue of service_id leaves
\* waiting for a fresh snapshot: those in subscribers[service_id] whose
\* queue_ws handler is still running.
Owing(service_id) ==
    IF service_id \in DOMAIN subscribers
    THEN owed \cup {c \in Range(subscribers[service_id]) : ws[c].at \in {"push", "receive"}}
    ELSE owed

\* ------------------------------------------------------------------- Init
Init ==
    /\ services = <<>>
    /\ tickets = <<>>
    /\ clock = 0
    /\ pc = [p \in Procs |-> "idle"]
    /\ frame = [p \in Procs |-> NoFrame]
    /\ resp = [p \in Procs |-> NoResp]
    /\ subscribers = [s \in ServiceIdInputs |-> <<>>]
    /\ ws = [c \in Conns |-> NoSocket]
    /\ inbox = [c \in Conns |-> <<>>]
    /\ owed = {}
    /\ seen = [p \in Procs |-> NoSeen]

\* ------------------------------------------------------------------ clock
Tick ==
    /\ clock < MaxClock
    /\ clock' = clock + 1
    /\ UNCHANGED <<services, tickets, pc, frame, resp, subscribers, ws, inbox, owed, seen>>

\* --------------------------------------------------------------- services
\* POST /services, first statement: SELECT ... WHERE name = :name
CreateServiceCheck(p, name) ==
    /\ pc[p] = "idle"
    /\ frame' = [frame EXCEPT ![p] = [NoFrame EXCEPT !.op = "create_service", !.name = name]]
    /\ IF ServiceByName(name) # {}
       THEN Finish(p, Reply(400, "already exists", <<>>))
       ELSE /\ pc' = [pc EXCEPT ![p] = "cs_commit"]
            /\ UNCHANGED resp
    /\ UNCHANGED <<services, tickets, clock, subscribers, ws, inbox, owed, seen>>

\* session.add(svc); session.commit(): the INSERT runs into the UNIQUE index
\* on service.name when the name was inserted since the check.
CreateServiceCommit(p) ==
    /\ pc[p] = "cs_commit"
    /\ IF ServiceByName(frame[p].name) # {}
       THEN /\ Finish(p, Reply(500, "IntegrityError", <<>>))
            /\ UNCHANGED <<services, frame>>
       ELSE /\ services' = Append(services, frame[p].name)
            /\ frame' = [frame EXCEPT ![p].service_id = Len(services) + 1]
            /\ Finish(p, Reply(201, "", <<[id |-> Len(services) + 1, name |-> frame[p].name]>>))
    /\ UNCHANGED <<tickets, clock, subscribers, ws, inbox, owed, seen>>

\* ---------------------------------------------------------------- tickets
InFlightInserts == {q \in Procs : pc[q] = "rt_commit"}

\* POST /tickets up to the construction of the Ticket object, whose
\* default_factory reads the clock.
RegisterBuild(p, name, service_id) ==
    /\ pc[p] = "idle"
    /\ NextRowId(TicketIds) + Cardinality(InFlightInserts) <= MaxTicketId
    /\ IF ~ServiceFound(service_id)
       THEN /\ frame' = [frame EXCEPT ![p] = [NoFrame EXCEPT !.op = "register_ticket",
                            !.name = name, !.service_id = service_id]]
            /\ Finish(p, Reply(404, "Service not found", <<>>))
       ELSE /\ frame' = [frame EXCEPT ![p] = [NoFrame EXCEPT !.op = "register_ticket",
                            !.name = name, !.service_id = service_id,
                            !.created_at = clock]]
            /\ pc' = [pc EXCEPT ![p] = "rt_commit"]
            /\ UNCHANGED resp
    /\ UNCHANGED <<services, tickets, clock, subscribers, ws, inbox, owed, seen>>

\* session.add(ticket); session.commit()
RegisterCommit(p) ==
    /\ pc[p] = "rt_commit"
    /\ tickets' = InsertTicket(tickets,
                      Ticket(frame[p].name, frame[p].service_id, frame[p].created_at))
    /\ frame' = [frame EXCEPT ![p].ticket_id = NextRowId(TicketIds)]
    /\ pc' = [pc EXCEPT ![p] = "rt_refresh"]
    /\ owed' = Owing(frame[p].service_id)
    /\ seen' = Observe(tickets')
    /\ UNCHANGED <<services, clock, resp, subscribers, ws, inbox>>

\* session.refresh(ticket): SELECT ... WHERE id = :id into the ticket object.
\* _position_in_queue returns 0 for a called ticket without a statement.
RegisterRefresh(p) ==
    /\ pc[p] = "rt_refresh"
    /\ LET id == frame[p].ticket_id
       IN  IF id \notin TicketIds
           THEN /\ Finish(p, Reply(500, "InvalidRequestError", <<>>))
                /\ UNCHANGED frame
           ELSE IF tickets[id].called
           THEN /\ Finish(p, Reply(201, "", <<ticket_to_read(id, tickets[id], 0)>>))
                /\ UNCHANGED frame
           ELSE /\ frame' = [frame EXCEPT ![p].ticket = <<tickets[id]>>]
                /\ pc' = [pc EXCEPT ![p] = "rt_position"]
                /\ UNCHANGED resp
    /\ UNCHANGED <<services, tickets, clock, subscribers, ws, inbox, owed, seen>>

\* The SELECT of _position_in_queue for the refreshed ticket object, and the
\* return of register_ticket.
RegisterPosition(p) ==
    /\ pc[p] = "rt_position"
    /\ LET ticket == frame[p].ticket[1]
       IN  Finish(p, Reply(201, "",
               <<ticket_to_read(frame[p].ticket_id, ticket, position_in_queue(tickets, ticket))>>))
    /\ UNCHANGED <<services, tickets, clock, frame, subscribers, ws, inbox, owed, seen>>

\* GET /tickets/{ticket_id}: session.get(Ticket, ticket_id).
\* _position_in_queue returns 0 for a called ticket without a statement.
GetTicket(p, ticket_id) ==
    /\ pc[p] = "idle"
    /\ LET f == [NoFrame EXCEPT !.op = "get_ticket", !.ticket_id = ticket_id]
       IN  IF ticket_id \notin TicketIds
           THEN /\ frame' = [frame EXCEPT ![p] = f]
                /\ Finish(p, Reply(404, "Ticket not found", <<>>))
           ELSE IF tickets[ticket_id].called
           THEN /\ frame' = [frame EXCEPT ![p] = f]
                /\ Finish(p, Reply(200, "",
                       <<ticket_to_read(ticket_id, tickets[ticket_id], 0)>>))
           ELSE /\ frame' = [frame EXCEPT ![p] = [f EXCEPT !.ticket = <<tickets[ticket_id]>>]]
                /\ pc' = [pc EXCEPT ![p] = "gt_position"]
                /\ UNCHANGED resp
    /\ UNCHANGED <<services, tickets, clock, subscribers, ws, inbox, owed, seen>>

\* The SELECT of _position_in_queue for the ticket object that get_ticket
\* loaded, and the return of get_ticket.
GetTicketPosition(p) ==
    /\ pc[p] = "gt_position"
    /\ LET ticket == frame[p].ticket[1]
       IN  Finish(p, Reply(200, "",
               <<ticket_to_read(frame[p].ticket_id, ticket, position_in_queue(tickets, ticket))>>))
    /\ UNCHANGED <<services, tickets, clock, frame, subscribers, ws, inbox, owed, seen>>

\* DELETE /tickets/{ticket_id}, up to the test of ticket.called
CancelRead(p, ticket_id) ==
    /\ pc[p] = "idle"
    /\ frame' = [frame EXCEPT ![p] = [NoFrame EXCEPT !.op = "cancel_ticket", !.ticket_id = ticket_id]]
    /\ IF ticket_id \notin TicketIds
       THEN Finish(p, Reply(404, "Ticket not found", <<>>))
       ELSE IF tickets[ticket_id].called
       THEN Finish(p, Reply(400, "Already called; cannot cancel", <<>>))
       ELSE /\ pc' = [pc EXCEPT ![p] = "ct_delete"]
            /\ UNCHANGED resp
    /\ UNCHANGED <<services, tickets, clock, subscribers, ws, inbox, owed, seen>>

\* session.delete(ticket); session.commit(): DELETE FROM ticket WHERE id = :id.
\* A row that is gone already makes the ORM warn, not raise.
CancelDelete(p) ==
    /\ pc[p] = "ct_delete"
    /\ LET id == frame[p].ticket_id
       IN  IF id \in TicketIds
           THEN /\ tickets' = DeleteTicket(tickets, id)
                /\ owed' = Owing(tickets[id].service_id)
                /\ seen' = Observe(tickets')
           ELSE UNCHANGED <<tickets, owed, seen>>
    /\ Finish(p, Reply(204, "", <<>>))
    /\ UNCHANGED <<services, clock, frame, subscribers, ws, inbox>>

\* ------------------------------------------------------------ queue detail
\* The loop of queue_detail over all_tickets: idx counts the waiting tickets
\* met so far.
tickets_list_by_index(T, all) ==
    [k \in 1 .. Len(all) |->
        ticket_to_read(all[k], T[all[k]], IF T[all[k]].called THEN 0 ELSE k)]

tickets_list(T, all) ==
    [k \in 1 .. Len(all) |->
        ticket_to_read(all[k], T[all[k]],
            IF T[all[k]].called THEN 0
            ELSE 1 + Cardinality({j \in 1 .. (k - 1) : ~T[all[j]].called}))]

queue_detail(S, T, service_id) ==
    LET all_tickets == OrderByCreatedAt(T, TicketsOf(T, service_id))
    IN  [service_id |-> service_id,
         service_name |-> S[service_id],
         waiting |-> Cardinality({k \in 1 .. Len(all_tickets) : ~T[all_tickets[k]].called}),
         tickets |-> tickets_list(T, all_tickets)]

\* GET /queues/{service_id}
QueueDetail(p, service_id) ==
    /\ pc[p] = "idle"
    /\ frame' = [frame EXCEPT ![p] = [NoFrame EXCEPT !.op = "queue_detail", !.service_id = service_id]]
    /\ IF service_id \notin ServiceIds
       THEN Finish(p, Reply(404, "Service not found", <<>>))
       ELSE Finish(p, Reply(200, "", <<queue_detail(services, tickets, service_id)>>))
    /\ UNCHANGED <<services, tickets, clock, subscribers, ws, inbox, owed, seen>>

\* --------------------------------------------------------------- call next
\* The dependency of /admin/next: 0 lets the request through.  Header(...)
\* makes the header required, so a request without it is rejected by the
\* request validation before the body of verify_admin runs.
verify_admin(x_api_key) ==
    IF x_api_key = NoHeader THEN 422
    ELSE IF x_api_key # ADMIN_API_KEY THEN 401
    ELSE 0

MarkCalledFlagOnly(ticket, now) == [ticket EXCEPT !.called = TRUE]

MarkCalled(ticket, now) == [ticket EXCEPT !.called = TRUE, !.called_at = now]

\* POST /admin/next/{service_id} up to the SELECT ... ORDER BY created_at LIMIT 1
CallNextSelect(p, service_id, key) ==
    /\ pc[p] = "idle"
    /\ LET w == OrderByCreatedAt(tickets, WaitingOf(tickets, service_id))
           f == [NoFrame EXCEPT !.op = "call_next", !.service_id = service_id, !.key = key]
       IN  IF verify_admin(key) = 422
           THEN /\ frame' = [frame EXCEPT ![p] = f]
                /\ Finish(p, Reply(422, "Field required", <<>>))
                /\ UNCHANGED seen
           ELSE IF verify_admin(key) = 401
           THEN /\ frame' = [frame EXCEPT ![p] = f]
                /\ Finish(p, Reply(401, "Invalid API key", <<>>))
                /\ UNCHANGED seen
           ELSE IF w = <<>>
           THEN /\ frame' = [frame EXCEPT ![p] = f]
                /\ Finish(p, Reply(404, "No one waiting", <<>>))
                /\ UNCHANGED seen
           ELSE /\ frame' = [frame EXCEPT ![p] = [f EXCEPT !.ticket_id = w[1]]]
                /\ pc' = [pc EXCEPT ![p] = "cn_clock"]
                /\ seen' = [seen EXCEPT ![p].queue =
                               [j \in Range(w) |-> position_in_queue(tickets, tickets[j])]]
                /\ UNCHANGED resp
    /\ UNCHANGED <<services, tickets, clock, subscribers, ws, inbox, owed>>

\* ticket.called = True; ticket.called_at = datetime.now(timezone.utc): the
\* read of the clock, an event of its own between the SELECT and the UPDATE.
CallNextClock(p) ==
    /\ pc[p] = "cn_clock"
    /\ frame' = [frame EXCEPT ![p].called_at = clock]
    /\ pc' = [pc EXCEPT ![p] = "cn_commit"]
    /\ UNCHANGED <<services, tickets, clock, resp, subscribers, ws, inbox, owed, seen>>

\* session.add(ticket); session.commit():
\* UPDATE ticket SET called = 1, called_at = :now WHERE id = :id.  The ORM
\* raises StaleDataError when the UPDATE matches no row.
CallNextCommit(p) ==
    /\ pc[p] = "cn_commit"
    /\ LET id == frame[p].ticket_id
       IN  IF id \notin TicketIds
           THEN /\ Finish(p, Reply(500, "StaleDataError", <<>>))
                /\ UNCHANGED <<tickets, owed, seen>>
           ELSE /\ tickets' = [tickets EXCEPT ![id] = MarkCalled(@, frame[p].called_at)]
                /\ owed' = Owing(tickets[id].service_id)
                /\ seen' = Observe(tickets')
                /\ pc' = [pc EXCEPT ![p] = "cn_refresh"]
                /\ UNCHANGED resp
    /\ UNCHANGED <<services, clock, frame, subscribers, ws, inbox>>

\* session.refresh(ticket); return _ticket_to_read(ticket, position=0)
CallNextRefresh(p) ==
    /\ pc[p] = "cn_refresh"
    /\ LET id == frame[p].ticket_id
       IN  IF id \notin TicketIds
           THEN Finish(p, Reply(500, "InvalidRequestError", <<>>))
           ELSE Finish(p, Reply(200, "", <<ticket_to_read(id, tickets[id], 0)>>))
    /\ UNCHANGED <<services, tickets, clock, frame, subscribers, ws, inbox, owed, seen>>

\* ------------------------------------------------------------------- stats
\* GET /stats, first statement: SELECT of all services
StatsServices(p) ==
    /\ pc[p] = "idle"
    /\ LET ids == [k \in 1 .. Len(services) |-> k]
           f == [NoFrame EXCEPT !.op = "stats", !.services = ids]
       IN  /\ frame' = [frame EXCEPT ![p] = f]
           /\ IF ids = <<>>
              THEN /\ Finish(p, Reply(200, "", <<>>))
                   /\ UNCHANGED seen
              ELSE /\ pc' = [pc EXCEPT ![p] = "st_count"]
                   /\ seen' = [seen EXCEPT ![p].window = {WaitingCounts(tickets, ids)}]
                   /\ UNCHANGED resp
    /\ UNCHANGED <<services, tickets, clock, subscribers, ws, inbox, owed>>

\* One turn of the loop of stats: the SELECT of the waiting rows of the next
\* service and the append of its summary; after the last one, the return.
StatsCount(p) ==
    /\ pc[p] = "st_count"
    /\ LET svc == frame[p].services[Len(frame[p].summaries) + 1]
           summary == [service_id |-> svc, service_name |-> services[svc],
                       waiting |-> Cardinality(WaitingOf(tickets, svc))]
           summaries == Append(frame[p].summaries, summary)
       IN  /\ frame' = [frame EXCEPT ![p].summaries = summaries]
           /\ IF Len(summaries) = Len(frame[p].services)
              THEN Finish(p, Reply(200, "", summaries))
              ELSE UNCHANGED <<pc, resp>>
    /\ UNCHANGED <<services, tickets, clock, subscribers, ws, inbox, owed, seen>>

\* The client has its response; the worker thread takes the next request.
Return(p) ==
    /\ pc[p] = "done"
    /\ pc' = [pc EXCEPT ![p] = "idle"]
    /\ frame' = [frame EXCEPT ![p] = NoFrame]
    /\ resp' = [resp EXCEPT ![p] = NoResp]
    /\ seen' = [seen EXCEPT ![p] = NoSeen]
    /\ UNCHANGED <<services, tickets, clock, subscribers, ws, inbox, owed>>

\* --------------------------------------------------------------- websocket
\* Whether `async with Session(engine)` can be entered: Session is the
\* synchronous sqlmodel Session, which has __enter__/__exit__ only.
SessionIsAsyncContextManager == FALSE

\* queue_ws up to its first await of _push_queue_update
Subscribe(c, service_id) ==
    /\ ws[c].at = "new"
    /\ ws' = [ws EXCEPT ![c] = [at |-> "push", service_id |-> service_id,
                                 existing |-> service_id \in ServiceIds]]
    /\ subscribers' = [subscribers EXCEPT ![service_id] = Append(@, c)]
    /\ UNCHANGED <<services, tickets, clock, pc, frame, resp, inbox, owed, seen>>

\* _push_queue_update(service_id) awaited by queue_ws for websocket c.  Its
\* caller has just appended c, so the list is not empty, and entering the
\* `async with` raises TypeError, which queue_ws does not catch: the handler
\* ends with c still in subscribers.  The send loop is kept as written.
PushQueueUpdate(c) ==
    /\ ws[c].at = "push"
    /\ LET sid == ws[c].service_id
       IN  IF subscribers[sid] = <<>>
           THEN /\ ws' = [ws EXCEPT ![c].at = "receive"]
                /\ UNCHANGED <<inbox, owed, seen>>
           ELSE IF ~SessionIsAsyncContextManager
           THEN /\ ws' = [ws EXCEPT ![c].at = "failed"]
                /\ UNCHANGED <<inbox, owed, seen>>
           ELSE IF sid \notin ServiceIds
           THEN /\ ws' = [ws EXCEPT ![c].at = "failed"]
                /\ UNCHANGED <<inbox, owed, seen>>
           ELSE /\ inbox' = [d \in Conns |->
                                IF d \in Range(subscribers[sid])
                                THEN Append(inbox[d], queue_detail(services, tickets, sid))
                                ELSE inbox[d]]
                /\ owed' = owed \ Range(subscribers[sid])
                /\ ws' = [ws EXCEPT ![c].at = "receive"]
    /\ UNCHANGED <<services, tickets, clock, pc, frame, resp, subscribers, seen>>

\* ------------------------------------------------------------------- Next
\* One queue under concurrent registration, cancellation, calls and reads.
Next ==
    \/ Tick
    \/ \E p \in Procs : CreateServiceCheck(p, "Reception")
    \/ \E p \in Procs : CreateServiceCommit(p)
    \/ \E p \in Procs : RegisterBuild(p, "Alice", 1)
    \/ \E p \in Procs : RegisterCommit(p)
    \/ \E p \in Procs : RegisterRefresh(p)
    \/ \E p \in Procs : RegisterPosition(p)
    \/ \E p \in Procs, t \in TicketIdInputs : GetTicket(p, t)
    \/ \E p \in Procs : GetTicketPosition(p)
    \/ \E p \in Procs, t \in TicketIdInputs : CancelRead(p, t)
    \/ \E p \in Procs : CancelDelete(p)
    \/ \E p \in Procs : CallNextSelect(p, 1, ADMIN_API_KEY)
    \/ \E p \in Procs : CallNextClock(p)
    \/ \E p \in Procs : CallNextCommit(p)
    \/ \E p \in Procs : CallNextRefresh(p)
    \/ \E p \in Procs : Return(p)

Spec == Init /\ [][Next]_vars

\* The admission API under every kind of input: known and unknown ids,
\* empty names, every kind of credential.
NextAdmin ==
    \/ Tick
    \/ \E p \in Procs : CreateServiceCheck(p, "Reception")
    \/ \E p \in Procs : CreateServiceCommit(p)
    \/ \E p \in Procs, name \in TicketNames, s \in ServiceIdInputs : RegisterBuild(p, name, s)
    \/ \E p \in Procs : RegisterCommit(p)
    \/ \E p \in Procs : RegisterRefresh(p)
    \/ \E p \in Procs : RegisterPosition(p)
    \/ \E p \in Procs, s \in ServiceIdInputs : QueueDetail(p, s)
    \/ \E p \in Procs, s \in ServiceIdInputs, k \in KeyInputs : CallNextSelect(p, s, k)
    \/ \E p \in Procs : CallNextClock(p)
    \/ \E p \in Procs : CallNextCommit(p)
    \/ \E p \in Procs : CallNextRefresh(p)
    \/ \E p \in Procs : Return(p)

SpecAdmin == Init /\ [][NextAdmin]_vars

\* Two services: the summary of stats next to registrations.
NextStats ==
    \/ \E p \in Procs, name \in ServiceNames : CreateServiceCheck(p, name)
    \/ \E p \in Procs : CreateServiceCommit(p)
    \/ \E p \in Procs, s \in ServiceIdInputs : RegisterBuild(p, "Alice", s)
    \/ \E p \in Procs : RegisterCommit(p)
    \/ \E p \in Procs : RegisterRefresh(p)
    \/ \E p \in Procs : RegisterPosition(p)
    \/ \E p \in Procs : StatsServices(p)
    \/ \E p \in Procs : StatsCount(p)
    \/ \E p \in Procs : Return(p)

SpecStats == Init /\ [][NextStats]_vars

\* The live update feed next to the operations that change a queue.
NextFeed ==
    \/ \E p \in Procs : CreateServiceCheck(p, "Reception")
    \/ \E p \in Procs : CreateServiceCommit(p)
    \/ \E p \in Procs : RegisterBuild(p, "Alice", 1)
    \/ \E p \in Procs : RegisterCommit(p)
    \/ \E p \in Procs : RegisterRefresh(p)
    \/ \E p \in Procs : RegisterPosition(p)
    \/ \E p \in Procs, t \in TicketIdInputs : CancelRead(p, t)
    \/ \E p \in Procs : CancelDelete(p)
    \/ \E p \in Procs : CallNextSelect(p, 1, ADMIN_API_KEY)
    \/ \E p \in Procs : CallNextClock(p)
    \/ \E p \in Procs : CallNextCommit(p)
    \/ \E p \in Procs : CallNextRefresh(p)
    \/ \E p \in Procs : Return(p)
    \/ \E c \in Conns, s \in ServiceIdInputs : Subscribe(c, s)
    \/ \E c \in Conns : PushQueueUpdate(c)

SpecFeed == Init /\ [][NextFeed]_vars

\* A handler that has started runs to its end: the thread pool and the event
\* loop keep scheduling it.  Nothing obliges a client to send a request.
HandlerStep(p) ==
    \/ CreateServiceCommit(p)
    \/ RegisterCommit(p)
    \/ RegisterRefresh(p)
    \/ RegisterPosition(p)
    \/ CancelDelete(p)
    \/ CallNextClock(p)
    \/ CallNextCommit(p)
    \/ CallNextRefresh(p)

FairFeed ==
    /\ SpecFeed
    /\ \A p \in Procs : WF_vars(HandlerStep(p))
    /\ \A c \in Conns : WF_vars(PushQueueUpdate(c))

TypeOK ==
    /\ clock \in 0 .. MaxClock
    /\ \A p \in Procs : pc[p] \in {"idle", "done", "cs_commit", "rt_commit",
                                   "rt_refresh", "rt_position", "gt_position", "ct_delete",
                                   "cn_clock", "cn_commit", "cn_refresh", "st_count"}

\* ----------------------------------------------------------------- claims
Done(p, op) == pc[p] = "done" /\ frame[p].op = op

\* C1: no ticket is returned by two successful call_next requests (with M
\* waiting tickets at most M of the concurrent calls succeed).
C1_NoTicketCalledTwice ==
    \A p, q \in Procs :
        (/\ p # q
         /\ Done(p, "call_next") /\ resp[p].status = 200
         /\ Done(q, "call_next") /\ resp[q].status = 200)
        => resp[p].body[1].id # resp[q].body[1].id

\* C2: a ticket whose called flag is true is never removed from the store.
C2_CalledNeverRemoved ==
    [][\A i \in TicketIds : tickets[i].called => i \in DOMAIN tickets']_vars

\* C3: a call_next never ends in a server fault: when its ticket was
\* cancelled under it, it calls the next waiting ticket or answers 404.
C3_CallNextSkipsCancelled ==
    \A p \in Procs : Done(p, "call_next") => resp[p].status \in {200, 404}

\* C4: the positions of the N waiting tickets of a service are exactly 1..N.
C4_PositionsAreRanks ==
    \A s \in ServiceIds :
        {position_in_queue(tickets, tickets[i]) : i \in WaitingOf(tickets, s)}
            = 1 .. Cardinality(WaitingOf(tickets, s))

\* C5: the ticket that a call_next commit flips to called has the earliest
\* created_at among the tickets of its service waiting in the store then.
C5_StrictFifoAtCommit ==
    [][\A i \in TicketIds :
          (~tickets[i].called /\ i \in DOMAIN tickets' /\ tickets'[i].called)
          => \A j \in WaitingOf(tickets, tickets[i].service_id) :
                 ~(tickets[j].created_at < tickets[i].created_at)]_vars

\* C6: once called, a ticket stays in the store with called = true and
\* position 0 in every later state.
C6_CalledIsTerminal ==
    [][\A i \in TicketIds :
          tickets[i].called
          => /\ i \in DOMAIN tickets'
             /\ tickets'[i].called
             /\ position_in_queue(tickets', tickets'[i]) = 0]_vars

\* C7: in every store state a ticket has called = true exactly when its
\* called_at is set, and every stored row is a complete ticket.
C7_CalledIffCalledAt ==
    \A i \in TicketIds :
        /\ tickets[i].called <=> tickets[i].called_at # NULL
        /\ tickets[i].created_at # NULL
        /\ tickets[i].service_id \in ServiceIds

\* A call committed both columns while another call_next had failed.
C7_Witness ==
    /\ \E i \in TicketIds : tickets[i].called /\ tickets[i].called_at # NULL
    /\ \E p \in Procs : Done(p, "call_next") /\ resp[p].status = 500

\* C8: a websocket that is owed a snapshot of its service, because a change
\* of that queue committed while it was subscribed, is eventually sent one.
C8_MutationIsPushed ==
    \A c \in Conns : (c \in owed) ~> (c \notin owed)

\* C9: a websocket that subscribed to an existing service and is past its
\* first push holds the snapshot and its handler is in the receive loop.
C9_SnapshotOnSubscribe ==
    \A c \in Conns :
        (ws[c].existing /\ ws[c].at \notin {"new", "push"})
        => ws[c].at = "receive" /\ Len(inbox[c]) >= 1

\* C10: a call_next whose credential is missing or differs from
\* ADMIN_API_KEY ends with 401.
C10_BadKeyIsUnauthorized ==
    \A p \in Procs :
        (Done(p, "call_next") /\ frame[p].key # ADMIN_API_KEY)
        => resp[p].status = 401

\* C11: a create_service that does not create the service ends with the
\* 'already exists' rejection (400), never with a server fault.
C11_DuplicateNameIsConflict ==
    \A p \in Procs :
        (Done(p, "create_service") /\ resp[p].status # 201) => resp[p].status = 400

\* C12: every stored ticket has a non-empty name.
C12_StoredNamesNonEmpty ==
    \A i \in TicketIds : tickets[i].name # ""

\* C13: a register_ticket for a service_id that matches no service ends with
\* 404 'Service not found', and every stored ticket references a stored
\* service.
C13_UnknownServiceIsNotFound ==
    /\ \A i \in TicketIds : tickets[i].service_id \in 1 .. Len(services)
    /\ \A p \in Procs :
          (Done(p, "register_ticket") /\ frame[p].service_id \notin 1 .. Len(services))
          => /\ resp[p].status = 404
             /\ resp[p].detail = "Service not found"
             /\ resp[p].body = <<>>

\* A registration for an unknown service was rejected while the table holds
\* tickets.
C13_Witness ==
    /\ tickets # <<>>
    /\ \E p \in Procs : /\ Done(p, "register_ticket")
                        /\ frame[p].service_id \notin 1 .. Len(services)
                        /\ resp[p].status = 404

\* C14: a call_next that reaches the handler while no ticket of the service
\* has called = false ends with 404 'No one waiting', returns no ticket and
\* changes no ticket.
C14_EmptyQueueIsNotFound ==
    [][\A p \in Procs :
          (/\ pc[p] = "idle"
           /\ pc'[p] # "idle"
           /\ frame'[p].op = "call_next"
           /\ frame'[p].key = ADMIN_API_KEY
           /\ {i \in TicketIds : /\ tickets[i].service_id = frame'[p].service_id
                                 /\ ~tickets[i].called} = {})
          => /\ pc'[p] = "done"
             /\ resp'[p].status = 404
             /\ resp'[p].detail = "No one waiting"
             /\ resp'[p].body = <<>>
             /\ tickets' = tickets]_vars

\* A call_next was answered 404 for a service all of whose tickets are called.
C14_Witness ==
    \E p \in Procs :
        /\ Done(p, "call_next")
        /\ resp[p].status = 404
        /\ \E i \in TicketIds : tickets[i].service_id = frame[p].service_id
        /\ \A i \in TicketIds : tickets[i].service_id = frame[p].service_id => tickets[i].called

\* C15: queue_detail lists every stored ticket of the service in created_at
\* ascending order, called tickets at position 0, waiting tickets at
\* positions 1..k in list order, and reports waiting = k.
C15_QueueDetailListsAll ==
    [][\A p \in Procs :
          (/\ pc[p] = "idle"
           /\ pc'[p] = "done"
           /\ frame'[p].op = "queue_detail"
           /\ resp'[p].status = 200)
          => LET q == resp'[p].body[1]
                 L == q.tickets
                 mine == {i \in TicketIds : tickets[i].service_id = frame'[p].service_id}
             IN  /\ Len(L) = Cardinality(mine)
                 /\ {L[k].id : k \in 1 .. Len(L)} = mine
                 /\ \A k, l \in 1 .. Len(L) : k < l => L[k].created_at <= L[l].created_at
                 /\ \A k \in 1 .. Len(L) :
                       /\ L[k].called = tickets[L[k].id].called
                       /\ L[k].called => L[k].position = 0
                       /\ ~L[k].called =>
                             L[k].position = 1 + Cardinality({j \in 1 .. (k - 1) : ~L[j].called})
                 /\ q.waiting = Cardinality({i \in mine : ~tickets[i].called})]_vars

\* A queue_detail answer that lists a called ticket ahead of a waiting one.
C15_Witness ==
    \E p \in Procs :
        /\ Done(p, "queue_detail")
        /\ resp[p].status = 200
        /\ LET L == resp[p].body[1].tickets
           IN  \E k, l \in 1 .. Len(L) : k < l /\ L[k].called /\ ~L[l].called

\* C16: a call_next commit that runs with no concurrent mutation puts the
\* called ticket at position 0 and lowers the position of every other
\* waiting ticket of the service by exactly 1; other services keep theirs.
C16_CallShiftsQueueByOne ==
    [][\A p \in Procs :
          (/\ pc[p] = "cn_commit"
           /\ pc'[p] = "cn_refresh"
           /\ \A q \in Procs \ {p} : pc[q] \in {"idle", "done"}
           /\ ~tickets[frame[p].ticket_id].called
           /\ frame[p].ticket_id =
                 OrderByCreatedAt(tickets, WaitingOf(tickets, frame[p].service_id))[1])
          => LET i == frame[p].ticket_id
             IN  /\ position_in_queue(tickets', tickets'[i]) = 0
                 /\ \A j \in TicketIds \ {i} :
                       IF tickets[j].service_id = tickets[i].service_id /\ ~tickets[j].called
                       THEN position_in_queue(tickets', tickets'[j])
                               = position_in_queue(tickets, tickets[j]) - 1
                       ELSE /\ tickets'[j] = tickets[j]
                            /\ position_in_queue(tickets', tickets'[j])
                                  = position_in_queue(tickets, tickets[j])]_vars

\* The position of ticket i in the list of queue_detail, 0 when not listed.
ListedPosition(S, T, i) ==
    LET L == queue_detail(S, T, T[i].service_id).tickets
    IN  IF \E k \in 1 .. Len(L) : L[k].id = i
        THEN L[CHOOSE k \in 1 .. Len(L) : L[k].id = i].position
        ELSE 0

\* C17: a cancel_ticket that deletes a waiting ticket T removes it from the
\* store and from queue_detail; waiting tickets behind T move up by exactly
\* one position, those ahead keep theirs, and no called flag changes.
C17_CancelRemovesAndShifts ==
    [][\A p \in Procs :
          (/\ pc[p] = "ct_delete"
           /\ pc'[p] = "done"
           /\ frame[p].ticket_id \in TicketIds
           /\ ~tickets[frame[p].ticket_id].called)
          => LET t == frame[p].ticket_id
                 s == tickets[t].service_id
                 pos(T, j) == position_in_queue(T, T[j])
             IN  /\ resp'[p].status = 204
                 /\ t \notin DOMAIN tickets'
                 /\ \A k \in 1 .. Len(queue_detail(services', tickets', s).tickets) :
                       queue_detail(services', tickets', s).tickets[k].id # t
                 /\ DOMAIN tickets' = TicketIds \ {t}
                 /\ \A j \in TicketIds \ {t} :
                       /\ tickets'[j].called = tickets[j].called
                       /\ (tickets[j].service_id = s /\ ~tickets[j].called) =>
                             /\ pos(tickets, j) > pos(tickets, t)
                                   => pos(tickets', j) = pos(tickets, j) - 1
                             /\ pos(tickets, j) < pos(tickets, t)
                                   => pos(tickets', j) = pos(tickets, j)
                             /\ ListedPosition(services, tickets, j)
                                   > ListedPosition(services, tickets, t)
                                   => ListedPosition(services', tickets', j)
                                         = ListedPosition(services, tickets, j) - 1
                             /\ ListedPosition(services, tickets, j)
                                   < ListedPosition(services, tickets, t)
                                   => ListedPosition(services', tickets', j)
                                         = ListedPosition(services, tickets, j)]_vars

\* A cancel deleted its ticket and left a waiting ticket at the front.
C17_Witness ==
    /\ \E p \in Procs : /\ Done(p, "cancel_ticket")
                        /\ resp[p].status = 204
                        /\ frame[p].ticket_id \notin TicketIds
    /\ \E j \in TicketIds : ~tickets[j].called /\ position_in_queue(tickets, tickets[j]) = 1

\* C20: only the commit of a call_next changes called or called_at of a
\* ticket that stays in the store, and a new row starts with called = false
\* and called_at null.
C20_OnlyCallNextWritesCalled ==
    [][/\ \A i \in TicketIds \cap DOMAIN tickets' :
             (\/ tickets'[i].called # tickets[i].called
              \/ tickets'[i].called_at # tickets[i].called_at)
             => \E p \in Procs : /\ pc[p] = "cn_commit"
                                 /\ pc'[p] = "cn_refresh"
                                 /\ frame[p].ticket_id = i
       /\ \A i \in (DOMAIN tickets') \ TicketIds :
             ~tickets'[i].called /\ tickets'[i].called_at = NULL]_vars

\* A called and a waiting ticket are stored after a cancel went through.
C20_Witness ==
    /\ \E i \in TicketIds : tickets[i].called
    /\ \E i \in TicketIds : ~tickets[i].called /\ tickets[i].called_at = NULL
    /\ \E p \in Procs : Done(p, "cancel_ticket") /\ resp[p].status = 204

\* C18: the waiting counts that stats returns are, for all services at once,
\* those of one store state that existed while the request ran.
C18_StatsIsOneSnapshot ==
    \A p \in Procs :
        (Done(p, "stats") /\ resp[p].body # <<>>)
        => [k \in 1 .. Len(resp[p].body) |-> resp[p].body[k].waiting] \in seen[p].window

\* C19: when k call_next requests on a service have succeeded, every ticket
\* that was waiting at a position of at most k, shared with no other ticket,
\* when each of them selected is called (no row is ever deleted under the
\* specification this is checked in).
C19_CalledWithinPositionCalls ==
    \A Q \in (SUBSET Procs) \ {{}} :
        (/\ \A p \in Q : Done(p, "call_next") /\ resp[p].status = 200
         /\ \A p, q \in Q : frame[p].service_id = frame[q].service_id)
        => \A j \in TicketIds :
              (\A p \in Q : /\ j \in DOMAIN seen[p].queue
                            /\ seen[p].queue[j] <= Cardinality(Q)
                            /\ \A i \in (DOMAIN seen[p].queue) \ {j} :
                                  seen[p].queue[i] # seen[p].queue[j])
              => tickets[j].called

\* C21: a websocket whose handler has ended, its connection broken, does not
\* stay in the subscriber list of its service forever.
C21_BrokenSubscriberIsRemoved ==
    \A c \in Conns :
        (ws[c].at = "failed")
           ~> (\A s \in ServiceIdInputs : c \notin Range(subscribers[s]))

\* C22: for every stored ticket the position computed by _position_in_queue,
\* which get_ticket reports, is the position queue_detail lists for it in
\* the same store state.
C22_GetTicketAgreesWithQueueDetail ==
    \A i \in TicketIds :
        tickets[i].service_id \in ServiceIds
        => position_in_queue(tickets, tickets[i]) = ListedPosition(services, tickets, i)

\* C23: the position of a ticket never increases from one state to the next
\* while the ticket stays in the store.
C23_PositionNeverIncreases ==
    [][\A i \in TicketIds \cap DOMAIN tickets' :
          position_in_queue(tickets', tickets'[i])
             <= position_in_queue(tickets, tickets[i])]_vars

====
